---- MODULE Spec2Model ----
(***************************************************************************)
(* Model of djahern-max/exam_bot: the multi-pass answer inference of       *)
(* src/exam_analyzer.py (ExamAnalyzer) and src/persistent_exam_bot.py      *)
(* (AutomatedExamBot), with the results directory that connects them.      *)
(***************************************************************************)
EXTENDS Integers, Sequences, FiniteSets, TLC

(***************************************************************************)
(* Bounds of the model.                                                    *)
(***************************************************************************)
MaxQ == 2

(***************************************************************************)
(* Program constants.                                                      *)
(***************************************************************************)
\* exam_analyzer.py:100  for option_idx in range(4)
NumOptions == 4

\* exam_analyzer.py:17  self.options = ["A", "B", "C", "D"]
options == <<"A", "B", "C", "D">>

\* exam_analyzer.py:95  "recommended_answer": None
NoneVal == <<>>

\* the value of score when get_score returns None
ScoreNone == -1

\* the scores get_score can scrape
Scores == {ScoreNone, 50}

\* what the result page shows: the question numbers found near a 'Correct'
\* element, those near an 'Incorrect' element, and whether reading it raises
NoPage == [correct |-> {}, incorrect |-> {}, error |-> FALSE, shown |-> FALSE]

\* exam_automation_updated.py:111  self.questions, tagged with the call of
\* find_questions that filled it: "setup" (find_and_analyze_questions),
\* "pass" (test_single_option, with the number of the pass) or "retake"
NoQuestions == [by |-> "none", pass |-> 0]

\* persistent_exam_bot.py:293  if q_num % 10 == 0
HealthEvery == 10

OptionIdx == 0 .. (NumOptions - 1)
OptionRange == [i \in 1 .. NumOptions |-> i - 1]
Questions == 1 .. MaxQ

VARIABLES
    test_results,            \* ExamAnalyzer.test_results {option_index: {q: is_correct}}
    total_questions,         \* ExamAnalyzer.total_questions
    question_analysis,       \* value returned by the last analyze_questions
    answer_key,              \* value returned by the last build_answer_key
    a_pc,                    \* position of the analyzer in run_analysis
    runs,                    \* number of analyze_questions calls so far
    prev_question_analysis,  \* outputs of the run before the last one
    prev_answer_key,
    sessions,                \* ExamAnalyzer.sessions
    expected_score,          \* expected_score of the last generate_report
    files,                   \* exam_results/option_<name>_<session_id>.json
    session_id,              \* AutomatedExamBot.session_id
    bot_total_questions,     \* AutomatedExamBot.total_questions
    bot_test_results,        \* AutomatedExamBot.test_results
    b_pc,                    \* position of the bot in run_fully_automated
    option_idx,              \* loop variable of run_fully_automated
    passes,                  \* number of passes started so far
    successful_selections,   \* locals of test_single_option
    score,
    results,
    page,                    \* the result page shown by the exam site
    questions,               \* ExamAutomation.questions: which call found them
    trace,                   \* what the current pass did to the exam session
    prior_files,             \* the directory and test_results when the
    prior_mem,               \* current pass started
    driver,                  \* ExamAutomation.driver: "up" or "none"
    gate,                    \* the health probes made for the current pass
    started,                 \* the options whose pass was started in this run
    retake_attempts,         \* local of run_fully_automated
    retake_clicks,           \* click_retake calls of the current retake loop
    recovery_failed,         \* restart_browser_if_needed has returned False
    bot_answer_key,          \* value of analyze_and_build_answer_key
    final_trace,             \* what submit_final_exam did to the exam session
    final_score,             \* local of run_fully_automated
    final_scraped,           \* what get_score gave submit_final_exam
    exam_passed,             \* what the run printed about the final score
    retaken,                 \* click_retake has succeeded since the last pass
    w_pc,                    \* run_workflow.py main: position in the menu loop
    w_option,                \* option_index of the last run_option_test
    w_success,               \* value of the last run_option_test
    w_completed              \* "completed" of the last check_results_status

analyzer_vars == <<test_results, total_questions, question_analysis, answer_key,
                   a_pc, runs, prev_question_analysis, prev_answer_key, sessions,
                   expected_score>>
pass_vars == <<successful_selections, score, results, page, trace,
               prior_files, prior_mem>>
run_hist == <<started, retake_attempts, retake_clicks, recovery_failed,
              bot_answer_key, final_trace, final_score, final_scraped,
              exam_passed, retaken>>
run_vars == <<driver, gate, run_hist>>
bot_vars == <<session_id, bot_total_questions, bot_test_results, b_pc,
              option_idx, passes, questions, pass_vars, run_vars>>
workflow_vars == <<w_pc, w_option, w_success, w_completed>>
vars == <<analyzer_vars, files, bot_vars, workflow_vars>>

(***************************************************************************)
(* ExamAnalyzer.analyze_questions, exam_analyzer.py:83-143                 *)
(***************************************************************************)
\* variant: the option index is stored 1-based
OptTuple_oneBased(o) == <<o + 1, options[o + 1]>>

OptTuple(o) == <<o, options[o + 1]>>

\* exam_analyzer.py:103-109
IsCorrect(tr, o, q) == o \in DOMAIN tr /\ q \in DOMAIN tr[o] /\ tr[o][q]

\* variant: every option a pass tested for the question is listed incorrect
IsIncorrect_tested(tr, o, q) == o \in DOMAIN tr /\ q \in DOMAIN tr[o]

\* exam_analyzer.py:103-113
IsIncorrect(tr, o, q) == o \in DOMAIN tr /\ q \in DOMAIN tr[o] /\ ~tr[o][q]

\* variant: the inner else (line 115) is left out
IsMissing_outerOnly(tr, o, q) == o \notin DOMAIN tr

\* exam_analyzer.py:103-117
IsMissing(tr, o, q) == o \notin DOMAIN tr \/ q \notin DOMAIN tr[o]

\* the (option_idx, option_name) tuples of a list that was appended to
\* while option_idx ran over range(4)
OptionList(sel) == [i \in 1 .. Len(sel) |-> OptTuple(sel[i])]

\* exam_analyzer.py:90-117
Classify(tr, q) ==
    [question_number    |-> q,
     correct_options    |->
         OptionList(SelectSeq(OptionRange, LAMBDA o : IsCorrect(tr, o, q))),
     incorrect_options  |->
         OptionList(SelectSeq(OptionRange, LAMBDA o : IsIncorrect(tr, o, q))),
     missing_options    |->
         OptionList(SelectSeq(OptionRange, LAMBDA o : IsMissing(tr, o, q))),
     recommended_answer |-> NoneVal,
     confidence         |-> "unknown"]

\* variant: without a correct option the guess is the first option of the
\* question that a pass answered, when there is one
Resolve_guessTested(an) ==
    IF an.correct_options # <<>>
    THEN [an EXCEPT !.recommended_answer = an.correct_options[1],
                    !.confidence = IF Len(an.correct_options) = 1
                                   THEN "high" ELSE "multiple_correct"]
    ELSE IF Len(an.incorrect_options) = 4
    THEN [an EXCEPT !.recommended_answer = <<0, "A">>,
                    !.confidence = "all_incorrect"]
    ELSE IF an.missing_options # <<>>
    THEN [an EXCEPT !.recommended_answer =
                        IF an.incorrect_options # <<>>
                        THEN an.incorrect_options[1]
                        ELSE an.missing_options[1],
                    !.confidence = "untested_guess"]
    ELSE [an EXCEPT !.recommended_answer = <<0, "A">>,
                    !.confidence = "fallback"]

\* variant: the last correct option is taken instead of the first
Resolve_lastCorrect(an) ==
    IF an.correct_options # <<>>
    THEN [an EXCEPT !.recommended_answer = an.correct_options[Len(an.correct_options)],
                    !.confidence = IF Len(an.correct_options) = 1
                                   THEN "high" ELSE "multiple_correct"]
    ELSE IF Len(an.incorrect_options) = 4
    THEN [an EXCEPT !.recommended_answer = <<0, "A">>,
                    !.confidence = "all_incorrect"]
    ELSE IF an.missing_options # <<>>
    THEN [an EXCEPT !.recommended_answer = an.missing_options[1],
                    !.confidence = "untested_guess"]
    ELSE [an EXCEPT !.recommended_answer = <<0, "A">>,
                    !.confidence = "fallback"]

\* variant: without a correct option the answer defaults to A
Resolve_defaultA(an) ==
    IF an.correct_options # <<>>
    THEN [an EXCEPT !.recommended_answer = an.correct_options[1],
                    !.confidence = IF Len(an.correct_options) = 1
                                   THEN "high" ELSE "multiple_correct"]
    ELSE IF Len(an.incorrect_options) = 4
    THEN [an EXCEPT !.recommended_answer = <<0, "A">>,
                    !.confidence = "all_incorrect"]
    ELSE IF an.missing_options # <<>>
    THEN [an EXCEPT !.recommended_answer = <<0, "A">>,
                    !.confidence = "untested_guess"]
    ELSE [an EXCEPT !.recommended_answer = <<0, "A">>,
                    !.confidence = "fallback"]

\* variant: three incorrect options already count as all incorrect
Resolve_threeIncorrect(an) ==
    IF an.correct_options # <<>>
    THEN [an EXCEPT !.recommended_answer = an.correct_options[1],
                    !.confidence = IF Len(an.correct_options) = 1
                                   THEN "high" ELSE "multiple_correct"]
    ELSE IF Len(an.incorrect_options) >= 3
    THEN [an EXCEPT !.recommended_answer = <<0, "A">>,
                    !.confidence = "all_incorrect"]
    ELSE IF an.missing_options # <<>>
    THEN [an EXCEPT !.recommended_answer = an.missing_options[1],
                    !.confidence = "untested_guess"]
    ELSE [an EXCEPT !.recommended_answer = <<0, "A">>,
                    !.confidence = "fallback"]

\* variant: the untested branch is tried before the correct branch
Resolve_missingFirst(an) ==
    IF an.missing_options # <<>>
    THEN [an EXCEPT !.recommended_answer = an.missing_options[1],
                    !.confidence = "untested_guess"]
    ELSE IF an.correct_options # <<>>
    THEN [an EXCEPT !.recommended_answer = an.correct_options[1],
                    !.confidence = IF Len(an.correct_options) = 1
                                   THEN "high" ELSE "multiple_correct"]
    ELSE IF Len(an.incorrect_options) = 4
    THEN [an EXCEPT !.recommended_answer = <<0, "A">>,
                    !.confidence = "all_incorrect"]
    ELSE [an EXCEPT !.recommended_answer = <<0, "A">>,
                    !.confidence = "fallback"]

\* exam_analyzer.py:119-139
Resolve(an) ==
    IF an.correct_options # <<>>
    THEN [an EXCEPT !.recommended_answer = an.correct_options[1],
                    !.confidence = IF Len(an.correct_options) = 1
                                   THEN "high" ELSE "multiple_correct"]
    ELSE IF Len(an.incorrect_options) = 4
    THEN [an EXCEPT !.recommended_answer = <<0, "A">>,
                    !.confidence = "all_incorrect"]
    ELSE IF an.missing_options # <<>>
    THEN [an EXCEPT !.recommended_answer = an.missing_options[1],
                    !.confidence = "untested_guess"]
    ELSE [an EXCEPT !.recommended_answer = <<0, "A">>,
                    !.confidence = "fallback"]

\* variant: range(1, total_questions) stops one question early
AnalyzeQuestions_shortRange(tr, total) ==
    [q \in 1 .. (total - 1) |-> Resolve(Classify(tr, q))]

\* exam_analyzer.py:87-143
AnalyzeQuestions(tr, total) ==
    [q \in 1 .. total |-> Resolve(Classify(tr, q))]

\* exam_analyzer.py:149-187
BuildAnswerKey(qa) ==
    [q \in DOMAIN qa |-> qa[q].recommended_answer[1]]

\* expected_score before any report; a score is kept as an exact fraction
NoScore == [num |-> 0, den |-> 0]

(***************************************************************************)
(* Inputs of the analysis: any pass results over the four options.         *)
(***************************************************************************)
\* a pass map written by the bot has the keys 1..n of its own record; the
\* analyzer's total_questions may be larger or smaller than that n
PassMaps == UNION {[1 .. n -> BOOLEAN] : n \in Questions}
AllTestResults == UNION {[D -> PassMaps] : D \in SUBSET OptionIdx}

InitAnalyzer ==
    /\ test_results \in AllTestResults
    /\ total_questions \in 1 .. MaxQ
    /\ question_analysis = <<>>
    /\ answer_key = <<>>
    /\ a_pc = "loaded"
    /\ runs = 0
    /\ prev_question_analysis = <<>>
    /\ prev_answer_key = <<>>
    /\ sessions = <<>>
    /\ expected_score = NoScore
    /\ files = <<>>
    /\ session_id = 1
    /\ bot_total_questions = 0
    /\ bot_test_results = <<>>
    /\ b_pc = "ended"
    /\ option_idx = 0
    /\ passes = 0
    /\ successful_selections = 0
    /\ score = ScoreNone
    /\ results = <<>>
    /\ page = NoPage
    /\ questions = NoQuestions
    /\ trace = <<>>
    /\ prior_files = <<>>
    /\ prior_mem = <<>>
    /\ driver = "none"
    /\ gate = <<>>
    /\ started = <<>>
    /\ retake_attempts = 0
    /\ retake_clicks = 0
    /\ recovery_failed = FALSE
    /\ bot_answer_key = <<>>
    /\ final_trace = <<>>
    /\ final_score = ScoreNone
    /\ final_scraped = ScoreNone
    /\ exam_passed = "none"
    /\ retaken = FALSE
    /\ w_pc = "none"
    /\ w_option = 0
    /\ w_success = FALSE
    /\ w_completed = <<>>

MaxRuns == 2

\* variant: the analysis records every untested (option, question) as False
analyze_questions_fillsMissing ==
    /\ a_pc \in {"loaded", "built"}
    /\ runs < MaxRuns
    /\ question_analysis' = AnalyzeQuestions(test_results, total_questions)
    /\ prev_question_analysis' = question_analysis
    /\ prev_answer_key' = answer_key
    /\ runs' = runs + 1
    /\ a_pc' = "analyzed"
    /\ test_results' =
           [o \in OptionIdx |->
               [q \in 1 .. total_questions |-> IsCorrect(test_results, o, q)]]
    /\ UNCHANGED <<total_questions, answer_key, sessions, files, bot_vars,
                   expected_score>>
    /\ UNCHANGED workflow_vars

\* exam_analyzer.py:475  question_analysis = self.analyze_questions()
analyze_questions ==
    /\ a_pc \in {"loaded", "built"}
    /\ runs < MaxRuns
    /\ question_analysis' = AnalyzeQuestions(test_results, total_questions)
    /\ prev_question_analysis' = question_analysis
    /\ prev_answer_key' = answer_key
    /\ runs' = runs + 1
    /\ a_pc' = "analyzed"
    /\ UNCHANGED <<test_results, total_questions, answer_key, sessions, files,
                   bot_vars,
                   expected_score>>
    /\ UNCHANGED workflow_vars

\* exam_analyzer.py:478  answer_key = self.build_answer_key(question_analysis)
build_answer_key ==
    /\ a_pc = "analyzed"
    /\ answer_key' = BuildAnswerKey(question_analysis)
    /\ a_pc' = "built"
    /\ UNCHANGED <<test_results, total_questions, question_analysis, runs,
                   prev_question_analysis, prev_answer_key, sessions, files,
                   bot_vars,
                   expected_score>>
    /\ UNCHANGED workflow_vars

\* exam_analyzer.py:379-398, the number of questions with one of the tags
CountTags(qa, tags) ==
    Cardinality({q \in DOMAIN qa : qa[q].confidence \in tags})

\* variant: the questions tagged all_incorrect count as guesses too
ExpectedScore_countsProblematic(qa) ==
    LET total_questions_ == Len(qa)
        guessed == CountTags(qa, {"untested_guess", "fallback",
                                  "all_incorrect"})
        quarters == 4 * (CountTags(qa, {"high"})
                         + CountTags(qa, {"multiple_correct"})) + guessed
    IN  [num |-> quarters * 100, den |-> 4 * total_questions_]

\* exam_analyzer.py:419-425  expected_correct and expected_score, in
\* quarters of a question: expected_score = num / den
ExpectedScore(qa) ==
    LET total_questions_ == Len(qa)
        high_confidence == CountTags(qa, {"high"})
        multiple_correct == CountTags(qa, {"multiple_correct"})
        guessed == CountTags(qa, {"untested_guess", "fallback"})
        quarters == 4 * (high_confidence + multiple_correct)
                    + (IF guessed > 0 THEN guessed ELSE 0)
    IN  [num |-> quarters * 100, den |-> 4 * total_questions_]

\* exam_analyzer.py:365-431  generate_report, called by run_analysis after
\* build_answer_key
generate_report ==
    /\ a_pc = "built"
    /\ expected_score' = ExpectedScore(question_analysis)
    /\ a_pc' = "reported"
    /\ UNCHANGED <<test_results, total_questions, question_analysis,
                   answer_key, runs, prev_question_analysis, prev_answer_key,
                   sessions, files, bot_vars>>
    /\ UNCHANGED workflow_vars

NextAnalyzer == analyze_questions \/ build_answer_key

(***************************************************************************)
(* The report on pass results of up to MaxReportQ questions: the passes    *)
(* for A, B and C are complete, the pass for D is complete or missing.     *)
(* The first high questions have A correct, the next multi questions have  *)
(* A and B correct, the others have no correct option.                     *)
(***************************************************************************)
MaxReportQ == 10

ReportResults(n, high, multi, withD) ==
    [o \in (IF withD THEN OptionIdx ELSE OptionIdx \ {NumOptions - 1}) |->
        [q \in 1 .. n |->
            \/ q <= high /\ o = 0
            \/ high < q /\ q <= high + multi /\ o \in {0, 1}]]

InitReport ==
    /\ \E n \in 1 .. MaxReportQ, high \in 0 .. MaxReportQ,
          multi \in 0 .. MaxReportQ, withD \in BOOLEAN :
          /\ high + multi <= n
          /\ test_results = ReportResults(n, high, multi, withD)
          /\ total_questions = n
    /\ question_analysis = <<>>
    /\ answer_key = <<>>
    /\ a_pc = "loaded"
    /\ runs = 0
    /\ prev_question_analysis = <<>>
    /\ prev_answer_key = <<>>
    /\ sessions = <<>>
    /\ expected_score = NoScore
    /\ files = <<>>
    /\ session_id = 1
    /\ bot_total_questions = 0
    /\ bot_test_results = <<>>
    /\ b_pc = "ended"
    /\ option_idx = 0
    /\ passes = 0
    /\ successful_selections = 0
    /\ score = ScoreNone
    /\ results = <<>>
    /\ page = NoPage
    /\ questions = NoQuestions
    /\ trace = <<>>
    /\ prior_files = <<>>
    /\ prior_mem = <<>>
    /\ driver = "none"
    /\ gate = <<>>
    /\ started = <<>>
    /\ retake_attempts = 0
    /\ retake_clicks = 0
    /\ recovery_failed = FALSE
    /\ bot_answer_key = <<>>
    /\ final_trace = <<>>
    /\ final_score = ScoreNone
    /\ final_scraped = ScoreNone
    /\ exam_passed = "none"
    /\ retaken = FALSE
    /\ w_pc = "none"
    /\ w_option = 0
    /\ w_success = FALSE
    /\ w_completed = <<>>

NextReport == analyze_questions \/ build_answer_key \/ generate_report

SpecReport == InitReport /\ [][NextReport]_vars

SpecAnalyzer == InitAnalyzer /\ [][NextAnalyzer]_vars

(***************************************************************************)
(* The results directory: json.dump / json.load of a pass record.          *)
(***************************************************************************)
RECURSIVE IntToStr(_)
\* json.dump writes an int key as its decimal numeral (a sequence of digits)
IntToStr(n) ==
    IF n < 10 THEN <<n>> ELSE Append(IntToStr(n \div 10), n % 10)

RECURSIVE StrToInt(_)
\* exam_analyzer.py:54  int(q_str)
StrToInt(str) ==
    IF Len(str) = 0 THEN 0
    ELSE 10 * StrToInt(SubSeq(str, 1, Len(str) - 1)) + str[Len(str)]

\* persistent_exam_bot.py:382,388  "results": results written by json.dump
JsonDumpResults(res) ==
    [k \in {IntToStr(q) : q \in DOMAIN res} |-> res[StrToInt(k)]]

\* variant: the first record found for an option is kept
StoreOption_keepFirst(tr, o, qr) ==
    [x \in DOMAIN tr \cup {o} |-> IF x \in DOMAIN tr THEN tr[x] ELSE qr]

\* exam_analyzer.py:56  self.test_results[option_index] = question_results
StoreOption(tr, o, qr) ==
    [x \in DOMAIN tr \cup {o} |-> IF x = o THEN qr ELSE tr[x]]

\* variant: only the first digit of a key is read
QuestionResults_firstDigit(jres) ==
    [q \in {k[1] : k \in DOMAIN jres} |->
        jres[CHOOSE k \in DOMAIN jres : k[1] = q]]

\* exam_analyzer.py:51-54
QuestionResults(jres) ==
    [q \in {StrToInt(k) : k \in DOMAIN jres} |->
        jres[CHOOSE k \in DOMAIN jres : StrToInt(k) = q]]

\* variant: the file name carries the number of the pass as well
FileName_perPass(o, sid) == <<options[o + 1], sid * 10 + passes>>

\* persistent_exam_bot.py:386  option_<option_name>_<session_id>.json
FileName(o, sid) == <<options[o + 1], sid>>

NameRank(name) == CHOOSE i \in 1 .. NumOptions : options[i] = name

\* order of the paths under sorted(): the option letter, then the session_id
\* (a fixed-width timestamp, so later sessions sort later)
PathLess(f, g) ==
    \/ NameRank(f[1]) < NameRank(g[1])
    \/ f[1] = g[1] /\ f[2] < g[2]

RECURSIVE SortedPaths(_)
\* exam_analyzer.py:40  sorted(option_files)
SortedPaths(S) ==
    IF S = {} THEN <<>>
    ELSE LET f == CHOOSE x \in S : \A y \in S \ {x} : PathLess(x, y)
         IN  <<f>> \o SortedPaths(S \ {f})

\* variant: a record with fewer than 80% successful selections is skipped
LoadFile_skipLow(acc, data) ==
    IF 10 * data.successful_selections < 8 * data.total_questions
    THEN acc
    ELSE [test_results    |-> StoreOption(acc.test_results, data.option_index,
                                          QuestionResults(data.results)),
          total_questions |-> IF acc.total_questions = 0
                              THEN data.total_questions
                              ELSE acc.total_questions,
          sessions        |-> Append(acc.sessions,
                                     [session_id |-> data.session_id,
                                      timestamp  |-> data.timestamp])]

\* exam_analyzer.py:43-44  json.load gives the content of the file; a file
\* that cannot be read or parsed is a content with the one field unreadable
Readable(data) == "unreadable" \notin DOMAIN data

\* exam_analyzer.py:46-49  the fields read before anything is stored
FirstFields == {"option", "option_index", "session_id", "results"}

\* exam_analyzer.py:46-49,59,71  the fields read as data[...]
RequiredFields == FirstFields \cup {"total_questions", "timestamp"}

\* variant: a file is loaded whole or not at all
LoadFile_allOrNothing(acc, data) ==
    IF ~Readable(data) \/ ~(RequiredFields \subseteq DOMAIN data)
    THEN acc
    ELSE [test_results    |-> StoreOption(acc.test_results,
                                          data.option_index,
                                          QuestionResults(data.results)),
          total_questions |-> IF acc.total_questions = 0
                              THEN data.total_questions
                              ELSE acc.total_questions,
          sessions        |-> IF \E i \in 1 .. Len(acc.sessions) :
                                     acc.sessions[i].session_id
                                         = data.session_id
                              THEN acc.sessions
                              ELSE Append(acc.sessions,
                                          [session_id |-> data.session_id,
                                           timestamp  |-> data.timestamp])]

\* exam_analyzer.py:42-76, the body of the loop for one file: the statements
\* in their order, the first one that raises ending the work on the file
\* with what was assigned before it
LoadFile(acc, data) ==
    IF ~Readable(data) \/ ~(FirstFields \subseteq DOMAIN data)
    THEN acc
    ELSE LET stored ==
                 [acc EXCEPT !.test_results =
                      StoreOption(acc.test_results, data.option_index,
                                  QuestionResults(data.results))]
         IN  IF acc.total_questions = 0
                   /\ "total_questions" \notin DOMAIN data
             THEN stored
             ELSE LET counted ==
                          [stored EXCEPT !.total_questions =
                               IF acc.total_questions = 0
                               THEN data.total_questions
                               ELSE acc.total_questions]
                  IN  IF \E i \in 1 .. Len(acc.sessions) :
                             acc.sessions[i].session_id = data.session_id
                      THEN counted
                      ELSE IF "timestamp" \notin DOMAIN data
                      THEN counted
                      ELSE [counted EXCEPT !.sessions =
                                Append(acc.sessions,
                                       [session_id |-> data.session_id,
                                        timestamp  |-> data.timestamp])]

RECURSIVE LoadFiles(_, _, _)
\* exam_analyzer.py:40-76
LoadFiles(acc, fs, paths) ==
    IF paths = <<>> THEN acc
    ELSE LoadFiles(LoadFile(acc, fs[Head(paths)]), fs, Tail(paths))

\* exam_analyzer.py:22-81
load_all_results ==
    /\ a_pc = "new"
    /\ b_pc = "ended"
    /\ IF DOMAIN files = {}
       THEN /\ a_pc' = "failed"
            /\ UNCHANGED <<test_results, total_questions, sessions>>
       ELSE LET acc == LoadFiles([test_results    |-> test_results,
                                  total_questions |-> total_questions,
                                  sessions        |-> sessions],
                                 files, SortedPaths(DOMAIN files))
            IN  /\ test_results' = acc.test_results
                /\ total_questions' = acc.total_questions
                /\ sessions' = acc.sessions
                /\ a_pc' = IF DOMAIN acc.test_results # {}
                           THEN "loaded" ELSE "failed"
    /\ UNCHANGED <<question_analysis, answer_key, runs, prev_question_analysis,
                   prev_answer_key, files, bot_vars,
                   expected_score>>
    /\ UNCHANGED workflow_vars

(***************************************************************************)
(* AutomatedExamBot, persistent_exam_bot.py                                *)
(***************************************************************************)
MaxSessions == 2
MaxPasses == 2

\* persistent_exam_bot.py:456-477: a number outside 1..total_questions is
\* not returned (0 stands for None)
FindQuestionNumberNearElement(n, total) ==
    IF 1 <= n /\ n <= total THEN n ELSE 0

\* variant: the questions without a marker are not filled in
ParseDetailedResults_noFill(pg, total) ==
    IF pg.error
    THEN [q \in 1 .. total |-> FALSE]
    ELSE LET corr == {FindQuestionNumberNearElement(n, total) : n \in pg.correct} \ {0}
             inc  == {FindQuestionNumberNearElement(n, total) : n \in pg.incorrect} \ {0}
         IN  [q \in corr \cup inc |-> q \in corr]

\* persistent_exam_bot.py:404-454
ParseDetailedResults(pg, total) ==
    IF pg.error
    THEN [q \in 1 .. total |-> FALSE]
    ELSE LET corr == {FindQuestionNumberNearElement(n, total) : n \in pg.correct} \ {0}
             inc  == {FindQuestionNumberNearElement(n, total) : n \in pg.incorrect} \ {0}
             marked == [q \in corr \cup (inc \ corr) |-> q \in corr]
         IN  [q \in 1 .. total |->
                 IF q \in DOMAIN marked THEN marked[q] ELSE FALSE]

\* persistent_exam_bot.py:374-388, the record as json.dump writes it
PassRecord(sid, o, sc, total, succ, res) ==
    [session_id            |-> sid,
     option                |-> options[o + 1],
     option_index          |-> o,
     score                 |-> sc,
     total_questions       |-> total,
     successful_selections |-> succ,
     timestamp             |-> sid,
     results               |-> JsonDumpResults(res)]

\* persistent_exam_bot.py:374-384
ResultData(o) ==
    PassRecord(session_id, o, score, bot_total_questions,
               successful_selections, results)

\* persistent_exam_bot.py:34-44, a new bot process
bot_init ==
    /\ b_pc = "ended"
    /\ a_pc = "new"
    /\ session_id < MaxSessions
    /\ session_id' = session_id + 1
    /\ bot_total_questions' = 0
    /\ bot_test_results' = <<>>
    /\ b_pc' = "constructed"
    /\ questions' = NoQuestions
    /\ driver' = "none"
    /\ gate' = <<>>
    /\ UNCHANGED <<analyzer_vars, files, option_idx, passes, pass_vars,
                   run_hist>>
    /\ UNCHANGED workflow_vars

\* variant: the loop over the options starts when no question was found
run_setup_noDiscovery ==
    /\ b_pc = "constructed"
    /\ \E startOK \in BOOLEAN, found \in 0 .. MaxQ :
          /\ driver' = IF startOK THEN "up" ELSE "none"
          /\ IF startOK
             THEN /\ bot_total_questions' = found
                  /\ option_idx' = 0
                  /\ questions' = [by |-> "setup", pass |-> 0]
                  /\ b_pc' = "loop_top"
             ELSE /\ b_pc' = "ended"
                  /\ UNCHANGED <<bot_total_questions, option_idx, questions>>
    /\ UNCHANGED <<analyzer_vars, files, session_id, bot_test_results, passes,
                   pass_vars, gate, run_hist>>
    /\ UNCHANGED workflow_vars

\* persistent_exam_bot.py:693-709
run_setup ==
    /\ b_pc = "constructed"
    /\ \E startOK \in BOOLEAN, found \in 0 .. MaxQ :
          /\ driver' = IF startOK THEN "up" ELSE "none"
          /\ IF startOK /\ found > 0
             THEN /\ bot_total_questions' = found
                  /\ option_idx' = 0
                  /\ questions' = [by |-> "setup", pass |-> 0]
                  /\ b_pc' = "loop_top"
             ELSE /\ b_pc' = "ended"
                  /\ UNCHANGED <<bot_total_questions, option_idx, questions>>
    /\ UNCHANGED <<analyzer_vars, files, session_id, bot_test_results, passes,
                   pass_vars, gate, run_hist>>
    /\ UNCHANGED workflow_vars

\* persistent_exam_bot.py:712-727, the health check before a pass
loop_top ==
    /\ b_pc = "loop_top"
    /\ passes < MaxPasses
    /\ \E healthy \in BOOLEAN, restartOK \in BOOLEAN :
          IF healthy \/ restartOK
          THEN /\ b_pc' = "select"
               /\ passes' = passes + 1
               /\ questions' = IF healthy THEN questions ELSE NoQuestions
               /\ prior_files' = files
               /\ prior_mem' = bot_test_results
          ELSE /\ b_pc' = "after_loop"
               /\ UNCHANGED <<passes, questions, prior_files, prior_mem>>
    /\ UNCHANGED <<analyzer_vars, files, session_id, bot_total_questions,
                   bot_test_results, option_idx, successful_selections, score,
                   results, page, trace, driver, run_hist>>
    /\ gate' = <<>>
    /\ UNCHANGED workflow_vars

MinOf(S) == CHOOSE m \in S : \A x \in S : m <= x

\* persistent_exam_bot.py:293-300, the questions after which the health of
\* the browser is probed
HealthPoints(total) == {q \in 1 .. total : q % 10 = 0}

\* variant: a pass goes on when find_questions found nothing
NoneFound_never(found) == FALSE

\* persistent_exam_bot.py:249  if not questions
NoneFound(found) == found = 0

\* variant: the pass goes on although the browser did not answer
ConnectionLost_never(alive) == FALSE

\* persistent_exam_bot.py:237-243  the browser does not answer current_url
ConnectionLost(alive) == ~alive

\* one step of a pass as the exam session sees it: what was done, to which
\* question (or how many were found), with which option, through the question
\* handles of which find_questions call
Ev(ev, q, o, h) == [ev |-> ev, q |-> q, o |-> o, h |-> h]

\* variant: the selections go through the handles held before the pass
SelectCalls_stale(last, o, h) ==
    [q \in 1 .. last |-> Ev("select", q, o, questions)]

\* persistent_exam_bot.py:264-307, the calls select_answer(q_num, option_index)
\* of the loop in their order, up to question last
SelectCalls(last, o, h) == [q \in 1 .. last |-> Ev("select", q, o, h)]

\* persistent_exam_bot.py:232-339.  Inputs: whether the browser answers, the
\* number of questions found again (total_questions + delta, or none), the
\* questions whose selection succeeds, the outcome of the health probe.
tso_select(Deltas, SelSets) ==
    /\ b_pc = "select"
    /\ \E alive \in BOOLEAN,
          found \in {0} \cup {n \in 1 .. (bot_total_questions + MaxQ) :
                                 (n - bot_total_questions) \in Deltas},
          selOK \in SelSets, healthFail \in BOOLEAN :
          /\ alive => driver = "up"
          /\ gate' = Append(gate, IF alive THEN "alive_ok" ELSE "alive_fail")
          /\ LET fresh  == [by |-> "pass", pass |-> passes]
                 probes == HealthPoints(bot_total_questions)
                 disc   == <<Ev("discover", found, option_idx, fresh)>>
             IN  IF ConnectionLost(alive)
                 THEN /\ results' = <<>>
                      /\ b_pc' = "after_test"
                      /\ UNCHANGED <<successful_selections, questions, trace>>
                 ELSE IF NoneFound(found)
                 THEN /\ results' = <<>>
                      /\ b_pc' = "after_test"
                      /\ questions' = fresh
                      /\ trace' = disc
                      /\ UNCHANGED successful_selections
                 ELSE IF healthFail /\ probes # {}
                 THEN /\ results' = <<>>
                      /\ b_pc' = "after_test"
                      /\ questions' = fresh
                      /\ trace' = disc \o SelectCalls(MinOf(probes), option_idx,
                                                      questions')
                      /\ UNCHANGED successful_selections
                 ELSE /\ successful_selections' =
                             Cardinality({q \in 1 .. bot_total_questions :
                                             q <= found /\ q \in selOK})
                      /\ b_pc' = "submit"
                      /\ questions' = fresh
                      /\ trace' = disc \o SelectCalls(bot_total_questions,
                                                      option_idx, questions')
                      /\ UNCHANGED results
    /\ UNCHANGED <<analyzer_vars, files, session_id, bot_total_questions,
                   bot_test_results, option_idx, passes, score, page,
                   prior_files, prior_mem, driver, run_hist>>
    /\ UNCHANGED workflow_vars

\* variant: the pass goes on to the result page when the submit failed
tso_submit_ignoresFailure ==
    /\ b_pc = "submit"
    /\ \E success \in BOOLEAN :
          /\ b_pc' = "scrape"
          /\ trace' = Append(trace, Ev("submit", IF success THEN 1 ELSE 0,
                                       option_idx, questions))
          /\ UNCHANGED results
    /\ UNCHANGED <<analyzer_vars, files, session_id, bot_total_questions,
                   bot_test_results, option_idx, passes, questions,
                   successful_selections, score, page, prior_files, prior_mem,
                   run_vars>>
    /\ UNCHANGED workflow_vars

\* persistent_exam_bot.py:341-347
tso_submit ==
    /\ b_pc = "submit"
    /\ \E success \in BOOLEAN :
          IF success
          THEN /\ b_pc' = "scrape"
               /\ trace' = Append(trace, Ev("submit", 1, option_idx, questions))
               /\ UNCHANGED results
          ELSE /\ b_pc' = "after_test"
               /\ trace' = Append(trace, Ev("submit", 0, option_idx, questions))
               /\ results' = <<>>
    /\ UNCHANGED <<analyzer_vars, files, session_id, bot_total_questions,
                   bot_test_results, option_idx, passes, questions,
                   successful_selections, score, page, prior_files, prior_mem,
                   run_vars>>
    /\ UNCHANGED workflow_vars

\* the result pages: which questions carry a 'Correct' marker, which an
\* 'Incorrect' marker, or an exception while the page is read
AllPages ==
    {[correct |-> corr, incorrect |-> inc, error |-> err] :
        corr \in SUBSET Questions, inc \in SUBSET Questions, err \in BOOLEAN}
    \ {pg \in [correct : SUBSET Questions, incorrect : SUBSET Questions,
                error : {TRUE}] : pg.correct # {} \/ pg.incorrect # {}}

\* persistent_exam_bot.py:349-364: the wait for the result page, get_score,
\* parse_detailed_results
tso_scrape(ScoreSet, Pages) ==
    /\ b_pc = "scrape"
    /\ \E sc \in ScoreSet, pg \in Pages :
          /\ page' = [correct |-> pg.correct, incorrect |-> pg.incorrect,
                      error |-> pg.error, shown |-> TRUE]
          /\ score' = sc
          /\ results' = ParseDetailedResults(page', bot_total_questions)
    /\ trace' = trace \o <<Ev("await", 0, option_idx, questions),
                           Ev("score", 0, option_idx, questions),
                           Ev("scrape", 0, option_idx, questions)>>
    /\ b_pc' = IF results' = <<>> THEN "after_test" ELSE "persist"
    /\ UNCHANGED <<analyzer_vars, files, session_id, bot_total_questions,
                   bot_test_results, option_idx, passes, questions,
                   successful_selections, prior_files, prior_mem, run_vars>>
    /\ UNCHANGED workflow_vars

\* variant: the results are stored in memory and no record is written
tso_persist_memoryOnly ==
    /\ b_pc = "persist"
    /\ bot_test_results' =
           [o \in DOMAIN bot_test_results \cup {option_idx} |->
               IF o = option_idx THEN results ELSE bot_test_results[o]]
    /\ trace' = Append(trace, Ev("persist", 0, option_idx, questions))
    /\ b_pc' = "after_test"
    /\ UNCHANGED <<analyzer_vars, files, session_id, bot_total_questions,
                   option_idx, passes, questions, successful_selections,
                   score, results, page, prior_files, prior_mem,
                   run_vars>>
    /\ UNCHANGED workflow_vars

\* variant: the record is also written before the result page was read
tso_persist_early ==
    /\ b_pc \in {"scrape", "persist"}
    /\ files' = [f \in DOMAIN files \cup {FileName(option_idx, session_id)} |->
                    IF f = FileName(option_idx, session_id)
                    THEN ResultData(option_idx) ELSE files[f]]
    /\ bot_test_results' =
           [o \in DOMAIN bot_test_results \cup {option_idx} |->
               IF o = option_idx THEN results ELSE bot_test_results[o]]
    /\ trace' = Append(trace, Ev("persist", 0, option_idx, questions))
    /\ b_pc' = "after_test"
    /\ UNCHANGED <<analyzer_vars, session_id, bot_total_questions, option_idx,
                   passes, questions, successful_selections, score, results,
                   page, prior_files, prior_mem,
                   run_vars>>
    /\ UNCHANGED workflow_vars

\* persistent_exam_bot.py:373-402
tso_persist ==
    /\ b_pc = "persist"
    /\ files' = [f \in DOMAIN files \cup {FileName(option_idx, session_id)} |->
                    IF f = FileName(option_idx, session_id)
                    THEN ResultData(option_idx) ELSE files[f]]
    /\ bot_test_results' =
           [o \in DOMAIN bot_test_results \cup {option_idx} |->
               IF o = option_idx THEN results ELSE bot_test_results[o]]
    /\ trace' = Append(trace, Ev("persist", 0, option_idx, questions))
    /\ b_pc' = "after_test"
    /\ UNCHANGED <<analyzer_vars, session_id, bot_total_questions, option_idx,
                   passes, questions, successful_selections, score, results,
                   page, prior_files, prior_mem,
                   run_vars>>
    /\ UNCHANGED workflow_vars

\* persistent_exam_bot.py:729-783, after test_single_option returned
after_test ==
    /\ b_pc = "after_test"
    /\ \E proceed \in BOOLEAN :
          IF results # <<>> /\ option_idx = 3
          THEN b_pc' = "after_loop" /\ UNCHANGED <<option_idx, questions>>
          ELSE IF ~proceed
          THEN b_pc' = "after_loop" /\ UNCHANGED <<option_idx, questions>>
          ELSE IF option_idx = 3
          THEN b_pc' = "after_loop" /\ UNCHANGED <<option_idx, questions>>
          ELSE /\ b_pc' = "loop_top"
               /\ option_idx' = option_idx + 1
               /\ questions' = IF results # <<>>
                               THEN [by |-> "retake", pass |-> passes]
                               ELSE NoQuestions
    /\ successful_selections' = 0
    /\ score' = ScoreNone
    /\ results' = <<>>
    /\ page' = NoPage
    /\ trace' = <<>>
    /\ prior_files' = <<>>
    /\ prior_mem' = <<>>
    /\ UNCHANGED <<analyzer_vars, files, session_id, bot_total_questions,
                   bot_test_results, passes, driver, run_hist>>
    /\ gate' = <<>>
    /\ UNCHANGED workflow_vars

\* persistent_exam_bot.py:785-817
run_tail ==
    /\ b_pc = "after_loop"
    /\ b_pc' = "ended"
    /\ UNCHANGED <<analyzer_vars, files, session_id, bot_total_questions,
                   bot_test_results, option_idx, passes, questions, pass_vars,
                   run_vars>>
    /\ UNCHANGED workflow_vars

InitStore ==
    /\ test_results = <<>>
    /\ total_questions = 0
    /\ question_analysis = <<>>
    /\ answer_key = <<>>
    /\ a_pc = "new"
    /\ runs = 0
    /\ prev_question_analysis = <<>>
    /\ prev_answer_key = <<>>
    /\ sessions = <<>>
    /\ expected_score = NoScore
    /\ files = <<>>
    /\ session_id = 1
    /\ bot_total_questions = 0
    /\ bot_test_results = <<>>
    /\ b_pc = "constructed"
    /\ option_idx = 0
    /\ passes = 0
    /\ successful_selections = 0
    /\ score = ScoreNone
    /\ results = <<>>
    /\ page = NoPage
    /\ questions = NoQuestions
    /\ trace = <<>>
    /\ prior_files = <<>>
    /\ prior_mem = <<>>
    /\ driver = "none"
    /\ gate = <<>>
    /\ started = <<>>
    /\ retake_attempts = 0
    /\ retake_clicks = 0
    /\ recovery_failed = FALSE
    /\ bot_answer_key = <<>>
    /\ final_trace = <<>>
    /\ final_score = ScoreNone
    /\ final_scraped = ScoreNone
    /\ exam_passed = "none"
    /\ retaken = FALSE
    /\ w_pc = "none"
    /\ w_option = 0
    /\ w_success = FALSE
    /\ w_completed = <<>>

NextStore ==
    \/ bot_init \/ run_setup \/ loop_top
    \/ tso_select({0}, {Questions}) \/ tso_submit \/ tso_scrape({50}, AllPages)
    \/ tso_persist
    \/ after_test \/ run_tail
    \/ load_all_results \/ analyze_questions \/ build_answer_key

SpecStore == InitStore /\ [][NextStore]_vars

(***************************************************************************)
(* load_all_results on a results directory whose files need not be pass    *)
(* records written by this version of the bot: a file may be unreadable    *)
(* or lack one of the fields of a record.                                  *)
(***************************************************************************)
\* the paths of the directory: option_A_1.json, option_A_2.json,
\* option_B_1.json
LoadPaths == {<<"A", 1>>, <<"A", 2>>, <<"B", 1>>}

\* the fields of a pass record, persistent_exam_bot.py:374-384
RecordFields ==
    {"session_id", "option", "option_index", "score", "total_questions",
     "successful_selections", "timestamp", "results"}

Without(data, field) == [k \in DOMAIN data \ {field} |-> data[k]]

\* the contents a file of the directory can have
LoadContents(path) ==
    LET whole == {PassRecord(path[2], NameRank(path[1]) - 1, 50, 1, 1,
                             [q \in {1} |-> c]) : c \in BOOLEAN}
    IN  whole
        \cup {Without(data, field) : data \in whole, field \in RecordFields}
        \cup {[unreadable |-> TRUE]}

InitLoad ==
    /\ test_results = <<>>
    /\ total_questions = 0
    /\ question_analysis = <<>>
    /\ answer_key = <<>>
    /\ a_pc = "new"
    /\ runs = 0
    /\ prev_question_analysis = <<>>
    /\ prev_answer_key = <<>>
    /\ sessions = <<>>
    /\ expected_score = NoScore
    /\ \E paths \in SUBSET LoadPaths :
          \E fs \in [paths -> UNION {LoadContents(p) : p \in LoadPaths}] :
              /\ \A p \in paths : fs[p] \in LoadContents(p)
              /\ files = fs
    /\ session_id = 1
    /\ bot_total_questions = 0
    /\ bot_test_results = <<>>
    /\ b_pc = "ended"
    /\ option_idx = 0
    /\ passes = 0
    /\ successful_selections = 0
    /\ score = ScoreNone
    /\ results = <<>>
    /\ page = NoPage
    /\ questions = NoQuestions
    /\ trace = <<>>
    /\ prior_files = <<>>
    /\ prior_mem = <<>>
    /\ driver = "none"
    /\ gate = <<>>
    /\ started = <<>>
    /\ retake_attempts = 0
    /\ retake_clicks = 0
    /\ recovery_failed = FALSE
    /\ bot_answer_key = <<>>
    /\ final_trace = <<>>
    /\ final_score = ScoreNone
    /\ final_scraped = ScoreNone
    /\ exam_passed = "none"
    /\ retaken = FALSE
    /\ w_pc = "none"
    /\ w_option = 0
    /\ w_success = FALSE
    /\ w_completed = <<>>

NextLoad == load_all_results

SpecLoad == InitLoad /\ [][NextLoad]_vars

(***************************************************************************)
(* The workflow helper, run_workflow.py: the menu loop of main with        *)
(* check_results_status and run_option_test, which runs the bot's main     *)
(* program as a child process.                                             *)
(***************************************************************************)
\* a character of a line of text is its code: "0" is 48, "Y" 89, "y" 121
CharY == 121

\* run_workflow.py:87  process.stdin.write(f"{option_index}\n"), the line
\* the child reads, without its newline
StdinLine(option_index) ==
    [k \in 1 .. Len(IntToStr(option_index)) |->
        48 + IntToStr(option_index)[k]]

\* str.lower()
Lower(line) ==
    [k \in 1 .. Len(line) |->
        IF line[k] \in 65 .. 90 THEN line[k] + 32 ELSE line[k]]

\* persistent_exam_bot.py:829-830  confirm = input(...).lower();
\* if confirm == "y"
Confirmed(line) == Lower(line) = <<CharY>>

\* run_workflow.py:45-64  the options with a file option_<letter>_*.json,
\* in the order A, B, C, D
Completed(fs) ==
    SelectSeq(options, LAMBDA name : \E f \in DOMAIN fs : f[1] = name)

\* run_workflow.py:45-64, called at the head of the menu loop (176)
check_results_status ==
    /\ w_pc = "top"
    /\ w_completed' = Completed(files)
    /\ w_pc' = "menu"
    /\ UNCHANGED <<analyzer_vars, files, bot_vars, w_option, w_success>>

\* run_workflow.py:67-109 with the child process, persistent_exam_bot.py
\* 820-835.  crash: the child cannot be started or ends with an exit code
\* other than 0; saved: the options whose pass a run of the child saves
\* (run_fully_automated catches every exception, so a run that was started
\* ends with exit code 0 whatever it did)
run_option_test(option_index) ==
    /\ w_pc = "menu"
    /\ \E crash \in BOOLEAN, saved \in SUBSET OptionIdx :
          LET ran == ~crash /\ Confirmed(StdinLine(option_index))
          IN  /\ ~ran => saved = {}
              /\ files' =
                     IF ran
                     THEN [f \in DOMAIN files
                                 \cup {FileName(o, MaxSessions) : o \in saved}
                           |-> IF \E o \in saved : f = FileName(o, MaxSessions)
                               THEN PassRecord(MaxSessions, NameRank(f[1]) - 1,
                                               50, 1, 1, [q \in {1} |-> TRUE])
                               ELSE files[f]]
                     ELSE files
              /\ w_success' = ~crash
    /\ w_option' = option_index
    /\ w_pc' = "top"
    /\ UNCHANGED <<analyzer_vars, bot_vars, w_completed>>

\* the results directory before the helper starts: records of an earlier
\* session for any of the options
InitWorkflow ==
    /\ test_results = <<>>
    /\ total_questions = 0
    /\ question_analysis = <<>>
    /\ answer_key = <<>>
    /\ a_pc = "new"
    /\ runs = 0
    /\ prev_question_analysis = <<>>
    /\ prev_answer_key = <<>>
    /\ sessions = <<>>
    /\ expected_score = NoScore
    /\ \E done \in SUBSET OptionIdx :
          files = [f \in {FileName(o, 1) : o \in done} |->
                      PassRecord(1, NameRank(f[1]) - 1, 50, 1, 1,
                                 [q \in {1} |-> TRUE])]
    /\ session_id = 1
    /\ bot_total_questions = 0
    /\ bot_test_results = <<>>
    /\ b_pc = "ended"
    /\ option_idx = 0
    /\ passes = 0
    /\ successful_selections = 0
    /\ score = ScoreNone
    /\ results = <<>>
    /\ page = NoPage
    /\ questions = NoQuestions
    /\ trace = <<>>
    /\ prior_files = <<>>
    /\ prior_mem = <<>>
    /\ driver = "none"
    /\ gate = <<>>
    /\ started = <<>>
    /\ retake_attempts = 0
    /\ retake_clicks = 0
    /\ recovery_failed = FALSE
    /\ bot_answer_key = <<>>
    /\ final_trace = <<>>
    /\ final_score = ScoreNone
    /\ final_scraped = ScoreNone
    /\ exam_passed = "none"
    /\ retaken = FALSE
    /\ w_pc = "top"
    /\ w_option = 0
    /\ w_success = FALSE
    /\ w_completed = <<>>

NextWorkflow ==
    \/ check_results_status
    \/ \E option_index \in OptionIdx : run_option_test(option_index)

SpecWorkflow == InitWorkflow /\ [][NextWorkflow]_vars

(***************************************************************************)
(* One call of test_single_option on a bot that has found its questions    *)
(* and holds the results of earlier passes of its session, with every      *)
(* outcome of the exam session: the question count found again may differ  *)
(* from the first count, any selection may fail, the score may be missing. *)
(***************************************************************************)
MaxPrior == 2

\* question counts of the first discovery, persistent_exam_bot.py:213;
\* HealthEvery is the smallest count with a health probe inside the loop
PassTotals == Questions \cup {HealthEvery}

\* persistent_exam_bot.py:253  len(questions) != self.total_questions
PassDeltas == {-1, 0, 1}

\* the questions for which select_answer returns True
PassSelSets == (SUBSET Questions) \cup {1 .. HealthEvery}

\* the result map of an earlier pass: the option was right for question 1
PriorResults(total) == [q \in 1 .. total |-> q = 1]

InitPass ==
    /\ test_results = <<>>
    /\ total_questions = 0
    /\ question_analysis = <<>>
    /\ answer_key = <<>>
    /\ a_pc = "new"
    /\ runs = 0
    /\ prev_question_analysis = <<>>
    /\ prev_answer_key = <<>>
    /\ sessions = <<>>
    /\ expected_score = NoScore
    /\ session_id = 1
    /\ passes = MaxPasses - 1
    /\ bot_total_questions \in PassTotals
    /\ \E prior \in {P \in SUBSET OptionIdx : Cardinality(P) <= MaxPrior} :
          /\ bot_test_results =
                 [o \in prior |-> PriorResults(bot_total_questions)]
          /\ files =
                 [f \in {FileName(o, session_id) : o \in prior} |->
                     LET o == CHOOSE x \in prior : FileName(x, session_id) = f
                     IN  PassRecord(session_id, o, 50, bot_total_questions,
                                    bot_total_questions, bot_test_results[o])]
    /\ b_pc = "loop_top"
    /\ option_idx \in OptionIdx
    /\ successful_selections = 0
    /\ score = ScoreNone
    /\ results = <<>>
    /\ page = NoPage
    /\ questions = [by |-> "setup", pass |-> 0]
    /\ trace = <<>>
    /\ prior_files = <<>>
    /\ prior_mem = <<>>
    /\ driver = "up"
    /\ gate = <<>>
    /\ started = <<>>
    /\ retake_attempts = 0
    /\ retake_clicks = 0
    /\ recovery_failed = FALSE
    /\ bot_answer_key = <<>>
    /\ final_trace = <<>>
    /\ final_score = ScoreNone
    /\ final_scraped = ScoreNone
    /\ exam_passed = "none"
    /\ retaken = FALSE
    /\ w_pc = "none"
    /\ w_option = 0
    /\ w_success = FALSE
    /\ w_completed = <<>>

NextPass ==
    \/ loop_top
    \/ tso_select(PassDeltas, PassSelSets) \/ tso_submit \/ tso_scrape(Scores, AllPages)
    \/ tso_persist
    \/ after_test \/ run_tail
    \/ load_all_results

SpecPass == InitPass /\ [][NextPass]_vars

(***************************************************************************)
(* One run of run_fully_automated, with the loop over the four options,    *)
(* the browser recovery, the retake loop and the final submission.         *)
(***************************************************************************)
\* persistent_exam_bot.py:747  max_retake_attempts = 3
MaxRetakeAttempts == 3

\* persistent_exam_bot.py:41  self.target_score = 70.0
TargetScore == 70

\* the scores get_score can scrape after the final submission
FinalScores == {ScoreNone, 50, TargetScore, 80}

\* the result pages of a run: every question carries one marker
RunPages ==
    {[correct |-> corr, incorrect |-> Questions \ corr, error |-> FALSE] :
        corr \in SUBSET Questions}

\* variant: the loop goes round with the same option
NextOption_same(o) == o

\* persistent_exam_bot.py:712  for option_idx in range(4)
NextOption(o) == o + 1

\* variant: the run goes on to the next option after the last failed retake
RetakeExhausted_never(n) == FALSE

\* persistent_exam_bot.py:777  if retake_attempts >= max_retake_attempts
RetakeExhausted(n) == n >= MaxRetakeAttempts

\* persistent_exam_bot.py:489-525  restart_browser_if_needed.  recheck: the
\* browser answers the health check now; startOK: start_browser succeeds.
\* A new ExamAutomation has no driver until start_browser succeeded.
RestartBrowser(recheck, startOK) ==
    [ok        |-> recheck \/ startOK,
     driver    |-> IF recheck THEN driver
                   ELSE IF startOK THEN "up" ELSE "none",
     questions |-> IF recheck THEN questions ELSE NoQuestions]

\* persistent_exam_bot.py:712-727, the head of the loop body
loop_health ==
    /\ b_pc = "loop_top"
    /\ \E healthy \in BOOLEAN, recheck \in BOOLEAN, startOK \in BOOLEAN :
          /\ (healthy \/ recheck) => driver = "up"
          /\ healthy => (~recheck /\ ~startOK)
          /\ LET r == RestartBrowser(recheck, startOK)
             IN  IF healthy \/ r.ok
                 THEN /\ b_pc' = "select"
                      /\ passes' = passes + 1
                      /\ started' = Append(started, option_idx)
                      /\ retaken' = FALSE
                      /\ driver' = IF healthy THEN driver ELSE r.driver
                      /\ questions' = IF healthy THEN questions
                                      ELSE r.questions
                      /\ gate' = IF healthy THEN <<"health_ok">>
                                 ELSE IF recheck
                                 THEN <<"health_fail", "health_ok">>
                                 ELSE <<"health_fail", "restart_ok">>
                      /\ prior_files' = files
                      /\ prior_mem' = bot_test_results
                      /\ UNCHANGED recovery_failed
                 ELSE /\ b_pc' = "after_loop"
                      /\ driver' = r.driver
                      /\ questions' = r.questions
                      /\ recovery_failed' = TRUE
                      /\ gate' = <<"health_fail", "restart_fail">>
                      /\ UNCHANGED <<passes, started, prior_files, prior_mem,
                                     retaken>>
    /\ UNCHANGED <<analyzer_vars, files, session_id, bot_total_questions,
                   bot_test_results, option_idx, successful_selections, score,
                   results, page, trace, retake_attempts, retake_clicks,
                   bot_answer_key, final_trace, final_score>>
    /\ UNCHANGED <<final_scraped, exam_passed>>
    /\ UNCHANGED workflow_vars

\* persistent_exam_bot.py:727-746, after test_single_option returned
after_pass ==
    /\ b_pc = "after_test"
    /\ \E recheck \in BOOLEAN, startOK \in BOOLEAN :
          /\ recheck => driver = "up"
          /\ results # <<>> => (~recheck /\ ~startOK)
          /\ LET r == RestartBrowser(recheck, startOK)
             IN  IF results = <<>>
                 THEN /\ driver' = r.driver
                      /\ questions' = r.questions
                      /\ recovery_failed' = (recovery_failed \/ ~r.ok)
                      /\ IF r.ok /\ option_idx < NumOptions - 1
                         THEN /\ b_pc' = "loop_top"
                              /\ option_idx' = NextOption(option_idx)
                         ELSE b_pc' = "after_loop" /\ UNCHANGED option_idx
                      /\ UNCHANGED <<retake_attempts, retake_clicks>>
                 ELSE /\ UNCHANGED <<driver, questions, recovery_failed,
                                     option_idx>>
                      /\ IF option_idx < NumOptions - 1
                         THEN /\ b_pc' = "retake"
                              /\ retake_attempts' = 0
                              /\ retake_clicks' = 0
                         ELSE /\ b_pc' = "after_loop"
                              /\ UNCHANGED <<retake_attempts, retake_clicks>>
    /\ successful_selections' = 0
    /\ score' = ScoreNone
    /\ results' = <<>>
    /\ page' = NoPage
    /\ trace' = <<>>
    /\ prior_files' = <<>>
    /\ prior_mem' = <<>>
    /\ gate' = <<>>
    /\ UNCHANGED <<analyzer_vars, files, session_id, bot_total_questions,
                   bot_test_results, passes, started, bot_answer_key,
                   final_trace, final_score>>
    /\ UNCHANGED <<final_scraped, exam_passed, retaken>>
    /\ UNCHANGED workflow_vars

\* persistent_exam_bot.py:749-783, one iteration of the retake loop and, when
\* the loop is left, the test that follows it.  clickOK: click_retake returns
\* True (the button was clicked and find_questions found the questions again)
retake_step ==
    /\ b_pc = "retake"
    /\ retake_attempts < MaxRetakeAttempts
    /\ \E clickOK \in BOOLEAN, recheck \in BOOLEAN, startOK \in BOOLEAN :
          /\ (clickOK \/ recheck) => driver = "up"
          /\ (clickOK \/ retake_attempts + 1 >= MaxRetakeAttempts)
                => (~recheck /\ ~startOK)
          /\ retake_clicks' = retake_clicks + 1
          /\ LET r == RestartBrowser(recheck, startOK)
             IN  IF clickOK
                 THEN /\ questions' = [by |-> "retake", pass |-> passes]
                      /\ option_idx' = NextOption(option_idx)
                      /\ b_pc' = "loop_top"
                      /\ retaken' = TRUE
                      /\ UNCHANGED <<retake_attempts, driver, recovery_failed>>
                 ELSE /\ retake_attempts' = retake_attempts + 1
                      /\ UNCHANGED retaken
                      /\ IF retake_attempts' < MaxRetakeAttempts
                         THEN /\ driver' = r.driver
                              /\ questions' = r.questions
                              /\ IF r.ok
                                 THEN /\ b_pc' = "retake"
                                      /\ UNCHANGED <<option_idx,
                                                     recovery_failed>>
                                 ELSE /\ recovery_failed' = TRUE
                                      /\ option_idx' = NextOption(option_idx)
                                      /\ b_pc' = "loop_top"
                         ELSE /\ UNCHANGED <<driver, questions,
                                             recovery_failed>>
                              /\ IF RetakeExhausted(retake_attempts')
                                 THEN /\ b_pc' = "after_loop"
                                      /\ UNCHANGED option_idx
                                 ELSE /\ b_pc' = "loop_top"
                                      /\ option_idx' = NextOption(option_idx)
    /\ UNCHANGED <<analyzer_vars, files, session_id, bot_total_questions,
                   bot_test_results, passes, pass_vars, gate, started,
                   bot_answer_key, final_trace, final_score>>
    /\ UNCHANGED <<final_scraped, exam_passed>>
    /\ UNCHANGED workflow_vars

\* persistent_exam_bot.py:624-654  analyze_and_build_answer_key
BotAnswerKey(tr, total) ==
    [q \in 1 .. total |->
        LET correct_options ==
                SelectSeq(OptionRange,
                          LAMBDA o : /\ o \in DOMAIN tr
                                     /\ q \in DOMAIN tr[o]
                                     /\ tr[o][q])
        IN  IF correct_options # <<>> THEN correct_options[1] ELSE 0]

\* variant: the key is built whatever the passes produced
NoResults_never(tr) == FALSE

\* persistent_exam_bot.py:786  if not self.test_results
NoResults(tr) == DOMAIN tr = {}

\* persistent_exam_bot.py:785-790
build_key ==
    /\ b_pc = "after_loop"
    /\ IF NoResults(bot_test_results)
       THEN b_pc' = "ended" /\ UNCHANGED bot_answer_key
       ELSE /\ bot_answer_key' =
                   BotAnswerKey(bot_test_results, bot_total_questions)
            /\ b_pc' = "final_retake"
    /\ UNCHANGED <<analyzer_vars, files, session_id, bot_total_questions,
                   bot_test_results, option_idx, passes, questions, pass_vars,
                   driver, gate, started, retake_attempts, retake_clicks,
                   recovery_failed, final_trace, final_score>>
    /\ UNCHANGED <<final_scraped, exam_passed, retaken>>
    /\ UNCHANGED workflow_vars

\* persistent_exam_bot.py:792-797
final_retake ==
    /\ b_pc = "final_retake"
    /\ \E clickOK \in BOOLEAN :
          /\ clickOK => driver = "up"
          /\ IF clickOK
             THEN /\ questions' = [by |-> "retake", pass |-> passes]
                  /\ b_pc' = "final_submit"
                  /\ UNCHANGED final_score
             ELSE /\ final_score' = 0
                  /\ b_pc' = "report"
                  /\ UNCHANGED questions
    /\ UNCHANGED <<analyzer_vars, files, session_id, bot_total_questions,
                   bot_test_results, option_idx, passes, pass_vars, driver,
                   gate, started, retake_attempts, retake_clicks,
                   recovery_failed, bot_answer_key, final_trace>>
    /\ UNCHANGED <<final_scraped, exam_passed, retaken>>
    /\ UNCHANGED workflow_vars

\* variant: every question gets the default option
AnswerKeyGet_default(key, q) == 0

\* persistent_exam_bot.py:663  answer_key.get(q_num, 0)
AnswerKeyGet(key, q) == IF q \in DOMAIN key THEN key[q] ELSE 0

\* persistent_exam_bot.py:662-666, the calls select_answer(q_num, option_idx)
FinalCalls(key, total) ==
    [q \in 1 .. total |-> Ev("select", q, AnswerKeyGet(key, q), questions)]

\* persistent_exam_bot.py:656-691  submit_final_exam
final_submit ==
    /\ b_pc = "final_submit"
    /\ \E success \in BOOLEAN, sc \in FinalScores :
          /\ ~success => sc = ScoreNone
          /\ final_trace' =
                 final_trace
                 \o FinalCalls(bot_answer_key, bot_total_questions)
                 \o <<Ev("submit", IF success THEN 1 ELSE 0, 0, questions)>>
          /\ final_score' = IF success /\ sc # ScoreNone THEN sc ELSE 0
          /\ final_scraped' = sc
    /\ b_pc' = "report"
    /\ UNCHANGED <<exam_passed, retaken>>
    /\ UNCHANGED <<analyzer_vars, files, session_id, bot_total_questions,
                   bot_test_results, option_idx, passes, questions, pass_vars,
                   driver, gate, started, retake_attempts, retake_clicks,
                   recovery_failed, bot_answer_key>>
    /\ UNCHANGED workflow_vars

\* variant: a final score equal to the target is not a pass
ExamPassed_above(fs) == fs > TargetScore

\* persistent_exam_bot.py:804  if final_score >= self.target_score
ExamPassed(fs) == fs >= TargetScore

\* variant: when the retake before the final submission failed the run
\* goes back to it
run_report_again ==
    /\ b_pc = "report"
    /\ b_pc' = IF final_trace = <<>> THEN "final_retake" ELSE "ended"
    /\ exam_passed' = IF ExamPassed(final_score) THEN "passed"
                      ELSE "not_passed"
    /\ UNCHANGED <<analyzer_vars, files, session_id, bot_total_questions,
                   bot_test_results, option_idx, passes, questions, pass_vars,
                   driver, gate, started, retake_attempts, retake_clicks,
                   recovery_failed, bot_answer_key, final_trace, final_score,
                   final_scraped, retaken>>
    /\ UNCHANGED workflow_vars

\* variant: a final score below the target leads to another retake
run_report_retry ==
    /\ b_pc = "report"
    /\ b_pc' = IF final_score < TargetScore THEN "final_retake" ELSE "ended"
    /\ exam_passed' = IF ExamPassed(final_score) THEN "passed"
                      ELSE "not_passed"
    /\ UNCHANGED <<analyzer_vars, files, session_id, bot_total_questions,
                   bot_test_results, option_idx, passes, questions, pass_vars,
                   driver, gate, started, retake_attempts, retake_clicks,
                   recovery_failed, bot_answer_key, final_trace, final_score,
                   final_scraped, retaken>>
    /\ UNCHANGED workflow_vars

\* persistent_exam_bot.py:799-817, the report and the finally clause
run_report ==
    /\ b_pc = "report"
    /\ b_pc' = "ended"
    /\ exam_passed' = IF ExamPassed(final_score) THEN "passed"
                      ELSE "not_passed"
    /\ UNCHANGED <<analyzer_vars, files, session_id, bot_total_questions,
                   bot_test_results, option_idx, passes, questions, pass_vars,
                   driver, gate, started, retake_attempts, retake_clicks,
                   recovery_failed, bot_answer_key, final_trace, final_score,
                   final_scraped, retaken>>
    /\ UNCHANGED workflow_vars

\* variant: the records of an interrupted run are removed
interrupt_cleans ==
    /\ b_pc \notin {"ended"}
    /\ b_pc' = "ended"
    /\ files' = <<>>
    /\ successful_selections' = 0
    /\ score' = ScoreNone
    /\ results' = <<>>
    /\ page' = NoPage
    /\ trace' = <<>>
    /\ prior_files' = <<>>
    /\ prior_mem' = <<>>
    /\ gate' = <<>>
    /\ UNCHANGED <<analyzer_vars, session_id, bot_total_questions,
                   bot_test_results, option_idx, passes, questions, driver,
                   run_hist>>
    /\ UNCHANGED workflow_vars

\* persistent_exam_bot.py:809-817  KeyboardInterrupt or another exception
\* anywhere in the run: the handlers print and the finally clause closes
\* the browser
interrupt ==
    /\ b_pc \notin {"ended"}
    /\ b_pc' = "ended"
    /\ successful_selections' = 0
    /\ score' = ScoreNone
    /\ results' = <<>>
    /\ page' = NoPage
    /\ trace' = <<>>
    /\ prior_files' = <<>>
    /\ prior_mem' = <<>>
    /\ gate' = <<>>
    /\ UNCHANGED <<analyzer_vars, files, session_id, bot_total_questions,
                   bot_test_results, option_idx, passes, questions, driver,
                   run_hist>>
    /\ UNCHANGED workflow_vars

NextRun ==
    \/ run_setup \/ loop_health
    \/ tso_select({0}, {Questions}) \/ tso_submit \/ tso_scrape({50}, RunPages)
    \/ tso_persist
    \/ after_pass \/ retake_step
    \/ build_key \/ final_retake \/ final_submit \/ run_report
    \/ interrupt

SpecRun == InitStore /\ [][NextRun]_vars

\* the result pages of the runs followed to their end: every question is
\* marked correct
LivePages == {pg \in RunPages : pg.incorrect = {}}

NextRunLive ==
    \/ run_setup \/ loop_health
    \/ tso_select({0}, {Questions}) \/ tso_submit \/ tso_scrape({50}, LivePages)
    \/ tso_persist
    \/ after_pass \/ retake_step
    \/ build_key \/ final_retake \/ final_submit \/ run_report
    \/ interrupt

\* every operation of the exam session returns: a run that can take a step
\* takes one
SpecRunLive == InitStore /\ [][NextRunLive]_vars /\ WF_vars(NextRunLive)

(***************************************************************************)
(* Properties of the analysis.  The candidate sets are read off the loaded *)
(* pass results as section 4.3 of the specification defines them.          *)
(***************************************************************************)
CorrectCands(q) ==
    {o \in OptionIdx : \E p \in DOMAIN test_results :
        p = o /\ q \in DOMAIN test_results[p] /\ test_results[p][q] = TRUE}
IncorrectCands(q) ==
    {o \in OptionIdx : \E p \in DOMAIN test_results :
        p = o /\ q \in DOMAIN test_results[p] /\ test_results[p][q] = FALSE}
UntestedOpts(q) == OptionIdx \ (CorrectCands(q) \cup IncorrectCands(q))
Analyzed == a_pc \in {"analyzed", "built"}
Tag(q) == question_analysis[q].confidence
Rec(q) == question_analysis[q].recommended_answer[1]
HasGap == \E o \in DOMAIN test_results :
              \E q \in 1 .. total_questions : q \notin DOMAIN test_results[o]

\* C1: after analyze_questions and build_answer_key the answer key has
\* exactly the keys 1..total_questions, each mapped to one option index.
C1_TotalCoverage ==
    a_pc = "built" =>
        /\ DOMAIN answer_key = 1 .. total_questions
        /\ \A q \in 1 .. total_questions : answer_key[q] \in OptionIdx

C1_Witness ==
    a_pc = "built" /\ total_questions >= 2 /\ HasGap
    /\ DOMAIN answer_key = 1 .. total_questions

\* C2: a question with exactly one correct-option candidate is resolved to
\* that option with tag high, whatever the other options are.
C2_HighConfidence ==
    Analyzed =>
        \A q \in 1 .. total_questions :
            Cardinality(CorrectCands(q)) = 1 =>
                /\ Rec(q) \in CorrectCands(q)
                /\ Tag(q) = "high"

C2_Witness ==
    Analyzed /\ \E q \in 1 .. total_questions :
        /\ CorrectCands(q) = {1}
        /\ IncorrectCands(q) = {0}
        /\ Rec(q) = 1 /\ Tag(q) = "high"

\* C3: with two or more correct-option candidates the lowest-indexed one is
\* recommended and the tag is multiple_correct.
C3_LowestCorrect ==
    Analyzed =>
        \A q \in 1 .. total_questions :
            Cardinality(CorrectCands(q)) >= 2 =>
                /\ Rec(q) = MinOf(CorrectCands(q))
                /\ Tag(q) = "multiple_correct"

C3_Witness ==
    Analyzed /\ \E q \in 1 .. total_questions :
        /\ CorrectCands(q) = {1, 3}
        /\ Rec(q) = 1 /\ Tag(q) = "multiple_correct"

\* C4: without a correct-option candidate and with at least one untested
\* option, the lowest-indexed untested option is recommended, tag
\* untested_guess.
C4_UntestedGuess ==
    Analyzed =>
        \A q \in 1 .. total_questions :
            (CorrectCands(q) = {} /\ UntestedOpts(q) # {}) =>
                /\ Rec(q) = MinOf(UntestedOpts(q))
                /\ Tag(q) = "untested_guess"

C4_Witness ==
    Analyzed /\ DOMAIN test_results = {0}
    /\ \E q \in 1 .. total_questions :
        /\ IncorrectCands(q) = {0}
        /\ Rec(q) = 1 /\ Tag(q) = "untested_guess"

\* C5: a question is tagged all_incorrect exactly when all four options
\* were recorded incorrect for it, and then option 0 is recommended.
C5_AllIncorrect ==
    Analyzed =>
        \A q \in 1 .. total_questions :
            /\ (Tag(q) = "all_incorrect") <=> (IncorrectCands(q) = OptionIdx)
            /\ Tag(q) = "all_incorrect" => Rec(q) = 0

C5_Witness ==
    Analyzed /\ \E q \in 1 .. total_questions :
        IncorrectCands(q) = OptionIdx /\ Tag(q) = "all_incorrect" /\ Rec(q) = 0

\* C6: a question with a correct-option candidate is never tagged
\* untested_guess, all_incorrect or fallback.
C6_TagPriority ==
    Analyzed =>
        \A q \in 1 .. total_questions :
            CorrectCands(q) # {} =>
                Tag(q) \notin {"untested_guess", "all_incorrect", "fallback"}

C6_Witness ==
    Analyzed /\ \E q \in 1 .. total_questions :
        /\ CorrectCands(q) # {}
        /\ UntestedOpts(q) # {}
        /\ IncorrectCands(q) # {}
        /\ Tag(q) \in {"high", "multiple_correct"}

\* C7: every question resolves to high, multiple_correct, all_incorrect or
\* untested_guess with a recommendation; fallback and unknown never occur.
C7_NoFallback ==
    Analyzed =>
        /\ DOMAIN question_analysis = 1 .. total_questions
        /\ \A q \in 1 .. total_questions :
            /\ Tag(q) \in {"high", "multiple_correct", "all_incorrect",
                           "untested_guess"}
            /\ question_analysis[q].recommended_answer # NoneVal

C7_Witness ==
    Analyzed /\ Cardinality(DOMAIN test_results) = 2 /\ HasGap
    /\ \A q \in 1 .. total_questions : Tag(q) # "unknown"

Loaded == a_pc \in {"loaded", "analyzed", "built"}
SessionsOf(o) == {sid \in 1 .. MaxSessions : FileName(o, sid) \in DOMAIN files}
MaxOf(S) == CHOOSE m \in S : \A x \in S : x <= m
\* the per-question map of a pass record, as loaded: integer keys
SameMap(m, jres) ==
    /\ Cardinality(DOMAIN m) = Cardinality(DOMAIN jres)
    /\ \A k \in DOMAIN jres :
           StrToInt(k) \in DOMAIN m /\ m[StrToInt(k)] = jres[k]

\* C9 (as claimed): the loaded per-question results and the loaded
\* totalQuestions all come from pass records of one sessionId.
C9_OneSession ==
    Loaded =>
        \E sid \in 1 .. MaxSessions :
            /\ \A o \in DOMAIN test_results :
                   /\ FileName(o, sid) \in DOMAIN files
                   /\ SameMap(test_results[o], files[FileName(o, sid)].results)
            /\ \E o \in OptionIdx :
                   /\ FileName(o, sid) \in DOMAIN files
                   /\ total_questions = files[FileName(o, sid)].total_questions

\* C9 (amended): load_all_results combines the pass records of every
\* sessionId in the results directory: each option takes the per-question
\* results of its record with the latest sessionId, totalQuestions is that of
\* the first record in file-name order, and sessions lists every sessionId.
C9_AllSessions ==
    Loaded =>
        /\ DOMAIN test_results = {o \in OptionIdx : SessionsOf(o) # {}}
        /\ \A o \in DOMAIN test_results :
               SameMap(test_results[o],
                       files[FileName(o, MaxOf(SessionsOf(o)))].results)
        /\ LET o1 == MinOf(DOMAIN test_results)
           IN  total_questions =
                   files[FileName(o1, MinOf(SessionsOf(o1)))].total_questions
        /\ {sessions[i].session_id : i \in 1 .. Len(sessions)} =
               {files[f].session_id : f \in DOMAIN files}

C9_Witness ==
    /\ a_pc = "loaded"
    /\ Len(sessions) = 2
    /\ \E o \in DOMAIN test_results :
           /\ SessionsOf(o) = {1, 2}
           /\ files[FileName(o, 1)].results # files[FileName(o, 2)].results
           /\ SameMap(test_results[o], files[FileName(o, 2)].results)

\* C10: the per-question map of every persisted pass record has exactly the
\* keys 1..totalQuestions of that record, and a question for which the result
\* page showed no marker (or whose scraping raised) is recorded as false.
C10_TotalPerQuestion ==
    /\ \A f \in DOMAIN files :
           DOMAIN files[f].results =
               {IntToStr(q) : q \in 1 .. files[f].total_questions}
    /\ (b_pc = "after_test" /\ results # <<>>) =>
           /\ FileName(option_idx, session_id) \in DOMAIN files
           /\ LET rec == files[FileName(option_idx, session_id)]
              IN  \A q \in 1 .. rec.total_questions :
                      (page.error \/ q \notin (page.correct \cup page.incorrect))
                          => rec.results[IntToStr(q)] = FALSE

C10_Witness ==
    /\ b_pc = "after_test" /\ results # <<>>
    /\ ~page.error
    /\ \E q1, q2 \in 1 .. bot_total_questions :
           /\ q1 \in page.correct
           /\ q2 \notin (page.correct \cup page.incorrect)
           /\ files[FileName(option_idx, session_id)].results[IntToStr(q1)] = TRUE
           /\ files[FileName(option_idx, session_id)].results[IntToStr(q2)] = FALSE

(***************************************************************************)
(* Properties of one pass, test_single_option.  The trace holds what the   *)
(* pass has done so far; prior_files and prior_mem hold the directory and  *)
(* the in-memory results as they were when the pass started.               *)
(***************************************************************************)
InPass == b_pc \in {"select", "submit", "scrape", "persist", "after_test"}
Kinds == [i \in 1 .. Len(trace) |-> trace[i].ev]
Did(ev) == \E i \in 1 .. Len(trace) : trace[i].ev = ev
ThisFile == FileName(option_idx, session_id)
RecordsOf(sid, o) ==
    {f \in DOMAIN files :
        files[f].session_id = sid /\ files[f].option_index = o}

\* C11: the directory never holds two pass records with the same sessionId
\* and optionIndex; a step that changes the directory writes the record of
\* the current pass under its option and session, in place of an earlier
\* record of that option and session, and keeps every other record as it was.
C11_OneRecordPerOption ==
    /\ [](\A sid \in 1 .. MaxSessions, o \in OptionIdx :
             Cardinality(RecordsOf(sid, o)) <= 1)
    /\ [][files' # files =>
             /\ DOMAIN files' = DOMAIN files \cup {ThisFile}
             /\ files'[ThisFile].session_id = session_id
             /\ files'[ThisFile].option_index = option_idx
             /\ files'[ThisFile].results = JsonDumpResults(results)
             /\ files'[ThisFile].score = score
             /\ \A g \in DOMAIN files \ {ThisFile} : files'[g] = files[g]]_vars

C11_Witness ==
    /\ b_pc = "after_test" /\ Did("persist")
    /\ ThisFile \in DOMAIN prior_files
    /\ files[ThisFile].results # prior_files[ThisFile].results
    /\ files[ThisFile].results = JsonDumpResults(results)
    /\ RecordsOf(session_id, option_idx) = {ThisFile}
    /\ \E g \in DOMAIN prior_files :
           g # ThisFile /\ g \in DOMAIN files /\ files[g] = prior_files[g]

Persisted == files # prior_files \/ bot_test_results # prior_mem
SelectEvents == SelectSeq(trace, LAMBDA e : e.ev = "select")
Found == trace[1].q

\* C13: while a pass runs, the directory or the in-memory results differ
\* from what they were at its start only if the pass did, in this order, the
\* discovery, a selection for each question, a successful submit, the wait,
\* the score scrape, the per-question scrape and the save; a pass that stopped
\* before that has left both as they were.
C13_PersistLast ==
    InPass =>
        /\ Persisted =>
               /\ Kinds = <<"discover">>
                            \o [q \in 1 .. bot_total_questions |-> "select"]
                            \o <<"submit", "await", "score", "scrape", "persist">>
               /\ trace[bot_total_questions + 2].q = 1
               /\ results # <<>>
        /\ (b_pc = "after_test" /\ ~Did("persist")) =>
               files = prior_files /\ bot_test_results = prior_mem

C13_Witness ==
    /\ b_pc = "after_test"
    /\ Persisted
    /\ Kinds = <<"discover", "select", "select", "submit", "await", "score",
                 "scrape", "persist">>
    /\ option_idx \notin DOMAIN prior_mem
    /\ option_idx \in DOMAIN bot_test_results

\* C14: once the submit of a pass has failed, the pass writes no record and
\* leaves the in-memory results as they were when the pass started.
C14_SubmitFailure ==
    (InPass /\ \E i \in 1 .. Len(trace) :
                  trace[i].ev = "submit" /\ trace[i].q = 0) =>
        /\ files = prior_files
        /\ bot_test_results = prior_mem
        /\ results = <<>>
        /\ b_pc = "after_test"

C14_Witness ==
    /\ b_pc = "after_test"
    /\ trace # <<>>
    /\ trace[Len(trace)] = Ev("submit", 0, option_idx, questions)
    /\ successful_selections = bot_total_questions
    /\ option_idx \in DOMAIN prior_mem
    /\ bot_test_results = prior_mem /\ files = prior_files

\* C15 (as claimed): a pass whose selections all failed is a failure: it
\* leaves the directory and the in-memory results as they were.
C15_ZeroSelections ==
    (b_pc = "after_test" /\ Did("select") /\ successful_selections = 0) =>
        /\ files = prior_files
        /\ bot_test_results = prior_mem
        /\ ~Did("persist")

\* C16: a pass whose discovery found no question does nothing more: no
\* selection, no submit, no save, and the directory and the in-memory results
\* of every option are as they were when the pass started.
C16_NoQuestions ==
    (InPass /\ Did("discover") /\ Found = 0) =>
        /\ Kinds = <<"discover">>
        /\ b_pc = "after_test"
        /\ results = <<>>
        /\ files = prior_files
        /\ bot_test_results = prior_mem

C16_Witness ==
    /\ b_pc = "after_test"
    /\ Did("discover") /\ Found = 0
    /\ \E o \in DOMAIN prior_mem : o # option_idx
    /\ files = prior_files /\ files # <<>>

LowRatio(rec) ==
    /\ rec.successful_selections >= 1
    /\ 10 * rec.successful_selections < 8 * rec.total_questions

\* C17 (as claimed): the record of a pass in which at least one but fewer
\* than 80% of the selections succeeded carries a low-confidence flag.
C17_Flagged ==
    \A f \in DOMAIN files :
        LowRatio(files[f]) =>
            \E k \in DOMAIN files[f] :
                k \in {"low_confidence", "confidence", "flags", "warning"}

\* C17 (amended): a pass in which at least one but fewer than 80% of the
\* selections succeeded and whose submit succeeded is saved and loaded like
\* any other; its record has no flag, only the fields of every record, among
\* them the count of successful selections and the question count.
C17_CountOnly ==
    /\ (b_pc = "after_test" /\ Did("scrape")
           /\ successful_selections >= 1
           /\ 10 * successful_selections < 8 * bot_total_questions) =>
           /\ Did("persist")
           /\ ThisFile \in DOMAIN files
           /\ LowRatio(files[ThisFile])
           /\ files[ThisFile].successful_selections = successful_selections
           /\ files[ThisFile].results = JsonDumpResults(results)
           /\ bot_test_results[option_idx] = results
    /\ \A f \in DOMAIN files :
           /\ DOMAIN files[f] =
                  {"session_id", "option", "option_index", "score",
                   "total_questions", "successful_selections", "timestamp",
                   "results"}
           /\ (Loaded /\ LowRatio(files[f])) =>
                  /\ files[f].option_index \in DOMAIN test_results
                  /\ SameMap(test_results[files[f].option_index],
                             files[f].results)

C17_Witness ==
    /\ Loaded
    /\ \E f \in DOMAIN files :
           /\ LowRatio(files[f])
           /\ files[f].successful_selections = 1
           /\ files[f].total_questions = 2
           /\ SameMap(test_results[files[f].option_index], files[f].results)
           /\ test_results[files[f].option_index][2] = TRUE

\* C18 (as claimed): the question count stored in the record of a pass is
\* the number of questions the discovery of that pass found.
C18_TotalOfPass ==
    (b_pc = "after_test" /\ Did("persist")) =>
        files[ThisFile].total_questions = Found

\* C19 (as claimed): when the selections of a pass are done, a selection
\* was attempted for every question its discovery found, in increasing order
\* of the question number, each with the option of the pass.
C19_EveryFound ==
    (InPass /\ Did("submit")) =>
        /\ \A q \in 1 .. Found :
               \E i \in 1 .. Len(SelectEvents) : SelectEvents[i].q = q
        /\ \A i, j \in 1 .. Len(SelectEvents) :
               i < j => SelectEvents[i].q < SelectEvents[j].q
        /\ \A i \in 1 .. Len(SelectEvents) : SelectEvents[i].o = option_idx

\* C20: every selection of a pass comes after the discovery of that pass
\* and goes through the question handles that this discovery produced, never
\* through those of the first discovery, a retake or an earlier pass.
C20_FreshHandles ==
    InPass =>
        \A i \in 1 .. Len(trace) :
            trace[i].ev = "select" =>
                /\ i > 1
                /\ trace[1].ev = "discover"
                /\ trace[1].h = [by |-> "pass", pass |-> passes]
                /\ trace[i].h = trace[1].h

C20_Witness ==
    /\ b_pc = "submit"
    /\ Len(SelectEvents) = bot_total_questions
    /\ bot_total_questions >= 2
    /\ Found = bot_total_questions - 1
    /\ questions = [by |-> "pass", pass |-> passes]
    /\ \A i \in 1 .. Len(SelectEvents) : SelectEvents[i].h = questions

(***************************************************************************)
(* Properties of one run, run_fully_automated.                             *)
(***************************************************************************)
InLoop == b_pc \in {"loop_top", "select", "submit", "scrape", "persist",
                    "after_test", "retake", "after_loop"}
AfterKey == b_pc \in {"final_retake", "final_submit", "report", "ended"}
FinalSubmits ==
    {i \in 1 .. Len(final_trace) : final_trace[i].ev = "submit"}

\* C21: a pass is started only when the first discovery has found the
\* questions; while the run is in the loop over the options no answer key is
\* built and nothing of the final submission is done; once a key is built the
\* loop is over; the final submission is made only with a key that is built.
C21_PhaseOrder ==
    /\ started # <<>> => bot_total_questions >= 1
    /\ b_pc = "constructed" => started = <<>>
    /\ InLoop => (bot_answer_key = <<>> /\ final_trace = <<>>)
    /\ bot_answer_key # <<>> => AfterKey
    /\ final_trace # <<>> =>
           /\ DOMAIN bot_answer_key = 1 .. bot_total_questions
           /\ b_pc \in {"report", "ended"}

C21_Witness ==
    /\ b_pc = "report"
    /\ started = <<0, 1, 2, 3>>
    /\ DOMAIN bot_test_results = {1, 3}
    /\ DOMAIN bot_answer_key = 1 .. 2
    /\ final_trace # <<>>

\* C22: the options of the passes started in a run are strictly increasing
\* (so each option has at most one pass and no pass follows one of a higher
\* option), and the pass in progress is the one started last.
C22_OnePassPerOption ==
    /\ \A i, j \in 1 .. Len(started) : i < j => started[i] < started[j]
    /\ \A i \in 1 .. Len(started) : started[i] \in OptionIdx
    /\ InPass => (started # <<>> /\ started[Len(started)] = option_idx)

C22_Witness ==
    /\ b_pc = "after_test"
    /\ started = <<0, 1, 2, 3>>
    /\ DOMAIN bot_test_results = {0, 1, 2, 3}

\* C23: a retake loop calls click_retake at most 3 times; when 3 attempts
\* have failed the loop over the options is over, the last pass started is
\* the one before that retake, its results and those of the earlier passes
\* are in memory and on disk, and the answer key is built from them.
C23_RetakeBound ==
    /\ retake_clicks <= MaxRetakeAttempts
    /\ retake_attempts <= retake_clicks
    /\ retake_attempts = MaxRetakeAttempts =>
           /\ b_pc \in {"after_loop", "final_retake", "final_submit",
                     "report", "ended"}
           /\ started[Len(started)] = option_idx
           /\ option_idx \in DOMAIN bot_test_results
           /\ \A o \in DOMAIN bot_test_results :
                  /\ FileName(o, session_id) \in DOMAIN files
                  /\ SameMap(bot_test_results[o],
                             files[FileName(o, session_id)].results)
           /\ b_pc \in {"final_retake", "final_submit", "report"} =>
                  bot_answer_key =
                      BotAnswerKey(bot_test_results, bot_total_questions)

C23_Witness ==
    /\ b_pc = "report"
    /\ retake_attempts = MaxRetakeAttempts
    /\ retake_clicks = MaxRetakeAttempts
    /\ started = <<0, 1>>
    /\ DOMAIN bot_test_results = {0, 1}
    /\ bot_answer_key = BotAnswerKey(bot_test_results, bot_total_questions)
    /\ \E q \in DOMAIN bot_answer_key : bot_answer_key[q] = 1

\* C24 (as claimed): once restart_browser_if_needed has returned False, no
\* pass is started, nothing of the final submission is done and the
\* directory stays as it is.
C24_Aborted ==
    [][recovery_failed =>
          /\ started' = started
          /\ final_trace' = final_trace
          /\ files' = files]_vars

\* C25: answers are selected in a pass only when the probe at the head of
\* the pass answered, and that after the health check of the loop either
\* passed or failed and was followed by a recovery that succeeded; after a
\* recovery that failed no pass is entered.
C25_HealthGate ==
    /\ (InPass /\ Did("select")) =>
           gate \in {<<"health_ok", "alive_ok">>,
                     <<"health_fail", "health_ok", "alive_ok">>,
                     <<"health_fail", "restart_ok", "alive_ok">>}
    /\ b_pc = "select" =>
           gate \in {<<"health_ok">>, <<"health_fail", "health_ok">>,
                     <<"health_fail", "restart_ok">>}
    /\ (gate # <<>> /\ gate[Len(gate)] \in {"restart_fail", "alive_fail"}) =>
           (~Did("select") /\ b_pc \notin {"select", "submit", "scrape",
                                           "persist"})

C25_Witness ==
    /\ b_pc = "submit"
    /\ gate = <<"health_fail", "restart_ok", "alive_ok">>
    /\ Len(SelectEvents) = 2
    /\ started = <<0, 1>>

\* C26: every step of a run keeps every record of the directory; a record
\* is written only by the save of a completed pass, under the option and the
\* session of that pass.
C26_RecordsKept ==
    [][/\ \A f \in DOMAIN files : f \in DOMAIN files' /\ files'[f] = files[f]
       /\ files' # files =>
              /\ b_pc = "persist"
              /\ Did("scrape")
              /\ DOMAIN files' \ DOMAIN files = {ThisFile}]_vars

C26_Witness ==
    /\ b_pc = "ended"
    /\ recovery_failed
    /\ started = <<0, 1, 2>>
    /\ DOMAIN files = {FileName(0, session_id), FileName(1, session_id)}
    /\ bot_answer_key = <<>>

\* C27 (as claimed): the answer key of the run is the one that
\* analyze_questions and build_answer_key of the analyzer give for the same
\* pass results.
C27_SameKey ==
    bot_answer_key # <<>> =>
        bot_answer_key =
            BuildAnswerKey(AnalyzeQuestions(bot_test_results,
                                            bot_total_questions))

FinalKinds == [i \in 1 .. Len(final_trace) |-> final_trace[i].ev]

\* C28: what the final submission does is a selection for each question
\* 1..total_questions in increasing order, each with the option the answer
\* key holds for the question, and then the submit.
C28_FinalSelections ==
    final_trace # <<>> =>
        /\ FinalKinds = [q \in 1 .. bot_total_questions |-> "select"]
                            \o <<"submit">>
        /\ \A q \in 1 .. bot_total_questions :
               /\ final_trace[q].q = q
               /\ q \in DOMAIN bot_answer_key
               /\ final_trace[q].o = bot_answer_key[q]

C28_Witness ==
    /\ final_trace # <<>>
    /\ bot_total_questions = 2
    /\ final_trace[1].o = 2
    /\ final_trace[2].o = 1
    /\ final_trace[3] = Ev("submit", 1, 0, questions)

\* C29: a run submits the final exam at most once; after the final
\* submission, whatever its score, the run only reports and ends.
C29_OneFinalSubmission ==
    /\ Cardinality(FinalSubmits) <= 1
    /\ final_trace # <<>> => b_pc \in {"report", "ended"}
    /\ final_score # ScoreNone => b_pc \in {"report", "ended"}

C29_Witness ==
    /\ b_pc = "ended"
    /\ Cardinality(FinalSubmits) = 1
    /\ final_score = 50

(***************************************************************************)
(* Properties of the report, generate_report.                              *)
(***************************************************************************)
TagCount(tag) ==
    Cardinality({q \in 1 .. total_questions : Tag(q) = tag})

\* C30: the expected score of the report is
\* (high + multiple_correct + 0.25 * (untested_guess + fallback))
\* / totalQuestions * 100, the all_incorrect questions adding nothing;
\* 8 high and 2 untested_guess questions out of 10 give 85.
C30_ExpectedScore ==
    a_pc = "reported" =>
        /\ expected_score.den = 4 * total_questions
        /\ expected_score.num =
               100 * (4 * TagCount("high") + 4 * TagCount("multiple_correct")
                      + TagCount("untested_guess") + TagCount("fallback"))
        /\ (/\ total_questions = 10
            /\ TagCount("high") = 8
            /\ TagCount("untested_guess") = 2) =>
               expected_score.num = 85 * expected_score.den

C30_Witness ==
    /\ a_pc = "reported"
    /\ total_questions = 10
    /\ TagCount("high") = 8
    /\ TagCount("untested_guess") = 2
    /\ expected_score = [num |-> 3400, den |-> 40]

(***************************************************************************)
(* Further properties of one run, run_fully_automated.                     *)
(***************************************************************************)
Reported == exam_passed # "none"
FinalSubmitted ==
    \E i \in FinalSubmits : final_trace[i].q = 1

\* C31: a run that reaches its report says passed exactly when the final
\* submission was made and the score scraped after it is at least 70; when
\* the final submit failed, no score was scraped or the retake before the
\* final submission failed, the final score is 0 and the report says not
\* passed.
C31_PassedReport ==
    /\ Reported =>
           (exam_passed = "passed"
               <=> (FinalSubmitted /\ final_scraped >= TargetScore))
    /\ (final_score # ScoreNone
           /\ (~FinalSubmitted \/ final_scraped = ScoreNone)) =>
           /\ final_score = 0
           /\ exam_passed # "passed"
    /\ Reported => (b_pc = "ended" /\ final_score # ScoreNone)

C31_Witness ==
    /\ Reported
    /\ exam_passed = "passed"
    /\ FinalSubmitted
    /\ final_scraped = TargetScore

\* C32: a pass that is not the first of the run is started only when
\* click_retake has succeeded since the pass before it.
C32_RetakeBeforePass ==
    [][(b_pc = "loop_top" /\ b_pc' = "select" /\ started # <<>>)
          => retaken]_vars

\* C33: the final submission is attempted only when a pass of this run has
\* produced results and the retake just before it has succeeded; a run whose
\* passes produced no results ends with no key and no final submission.
C33_FinalOnlyWithResults ==
    /\ (b_pc = "final_submit" \/ final_trace # <<>>) =>
           /\ DOMAIN bot_test_results # {}
           /\ \A o \in DOMAIN bot_test_results :
                  o \in {started[i] : i \in 1 .. Len(started)}
           /\ questions = [by |-> "retake", pass |-> passes]
    /\ DOMAIN bot_test_results = {} =>
           /\ bot_answer_key = <<>>
           /\ final_trace = <<>>
           /\ final_score = ScoreNone
           /\ b_pc \notin {"final_retake", "final_submit", "report"}

C33_Witness ==
    /\ final_trace # <<>>
    /\ started = <<0, 1, 2, 3>>
    /\ DOMAIN bot_test_results = {2}

\* C34: at every point of a run, each option with a result in memory has a
\* record in the results directory, written under that option and the
\* session of the run, that holds the same result for every question.
C34_MemoryIsPersisted ==
    \A o \in DOMAIN bot_test_results :
        LET f == <<options[o + 1], session_id>>
        IN  /\ f \in DOMAIN files
            /\ files[f].session_id = session_id
            /\ files[f].option_index = o
            /\ SameMap(bot_test_results[o], files[f].results)

C34_Witness ==
    /\ b_pc = "retake"
    /\ DOMAIN bot_test_results = {0, 2}
    /\ bot_test_results[0] # bot_test_results[2]

\* C39: a run whose operations all return comes to its end (the final
\* report or an early return); it starts at most 4 passes and each retake
\* loop calls click_retake at most 3 times.
C39_Terminates ==
    /\ [](Len(started) <= 4 /\ retake_clicks <= 3)
    /\ <>(b_pc = "ended")

C39_Witness ==
    /\ b_pc = "ended"
    /\ Reported
    /\ Len(started) = 4
    /\ retake_clicks = 3

(***************************************************************************)
(* Further properties of analyze_questions and load_all_results.           *)
(***************************************************************************)
IndicesOf(list) == {list[i][1] : i \in 1 .. Len(list)}
Increasing(list) ==
    \A i, j \in 1 .. Len(list) : i < j => list[i][1] < list[j][1]

\* C35: for every analysed question the indices of correct_options,
\* incorrect_options and missing_options are pairwise disjoint and together
\* are the four options, and each list is in increasing index order, each
\* entry being the index with its letter.
C35_OptionPartition ==
    Analyzed =>
        \A q \in 1 .. total_questions :
            LET an == question_analysis[q]
                c == an.correct_options
                i == an.incorrect_options
                m == an.missing_options
            IN  /\ IndicesOf(c) \cup IndicesOf(i) \cup IndicesOf(m) = OptionIdx
                /\ IndicesOf(c) \cap IndicesOf(i) = {}
                /\ IndicesOf(c) \cap IndicesOf(m) = {}
                /\ IndicesOf(i) \cap IndicesOf(m) = {}
                /\ Len(c) + Len(i) + Len(m) = NumOptions
                /\ Increasing(c) /\ Increasing(i) /\ Increasing(m)
                /\ \A l \in {c, i, m} : \A k \in 1 .. Len(l) :
                       l[k] = <<l[k][1], options[l[k][1] + 1]>>

C35_Witness ==
    /\ Analyzed
    /\ total_questions = 2
    /\ DOMAIN test_results = {0, 1, 3}
    /\ DOMAIN test_results[1] = {1}
    /\ question_analysis[2].correct_options = <<>>
    /\ question_analysis[2].incorrect_options = <<<<0, "A">>, <<3, "D">>>>
    /\ question_analysis[2].missing_options = <<<<1, "B">>, <<2, "C">>>>

\* C36: the option recommended for an analysed question is one of the four
\* options, given as its index with its letter, and unless the question is
\* tagged all_incorrect no pass of the analysed results recorded that option
\* as incorrect for the question.
C36_NeverKnownIncorrect ==
    Analyzed =>
        \A q \in 1 .. total_questions :
            /\ Rec(q) \in OptionIdx
            /\ question_analysis[q].recommended_answer
                   = <<Rec(q), options[Rec(q) + 1]>>
            /\ Tag(q) # "all_incorrect" => Rec(q) \notin IncorrectCands(q)

C36_Witness ==
    /\ Analyzed
    /\ total_questions = 2
    /\ IncorrectCands(1) = {0, 2}
    /\ CorrectCands(1) = {}
    /\ Rec(1) = 1
    /\ IncorrectCands(2) = {0}
    /\ CorrectCands(2) = {2}
    /\ Rec(2) = 2

LoadDone == a_pc \in {"loaded", "failed"}
Whole(data) == Readable(data) /\ RequiredFields \subseteq DOMAIN data
WholePaths == {p \in DOMAIN files : Whole(files[p])}
Defective == DOMAIN files \ WholePaths

\* C37: what load_all_results has loaded (the results per option, the
\* question count and the sessions) is what the readable files holding
\* every required field give, a file that is unreadable or lacks a required
\* field adding nothing; and the load succeeds exactly when there is such a
\* whole file.
C37_SkipDefective ==
    LoadDone =>
        LET acc == LoadFiles([test_results    |-> <<>>,
                              total_questions |-> 0,
                              sessions        |-> <<>>],
                             files, SortedPaths(WholePaths))
        IN  /\ test_results = acc.test_results
            /\ total_questions = acc.total_questions
            /\ sessions = acc.sessions
            /\ a_pc = "loaded" <=> WholePaths # {}

(***************************************************************************)
(* Properties of the workflow helper.                                      *)
(***************************************************************************)
\* C38: when run_option_test has reported success for an option, the next
\* check_results_status lists that option as completed.
C38_SuccessMeansCompleted ==
    (w_pc = "menu" /\ w_success) =>
        \E k \in 1 .. Len(w_completed) : w_completed[k] = options[w_option + 1]

====
